---------------------------- MODULE Spec2Model ----------------------------
(***************************************************************************)
(* Model of the pull-request "Database changes" hook.                      *)
(*                                                                         *)
(*   variant "B"  = src/.github/scripts/pr-db-changes.js  (do/undo aware)  *)
(*   variant "A"  = src/unnamed/part_000                  (flat list)      *)
(*                                                                         *)
(* Text is modelled as a sequence of lexemes.  A lexeme is a string that   *)
(* no operation of the program ever looks inside: the two markers, the     *)
(* fixed literals of the templates, a directory name of a path.  Wherever  *)
(* the program looks at single characters (the basename of a file, which   *)
(* is matched against a regular expression and split at "."; the patch,    *)
(* which is split at newlines and tested for a leading "+"; whitespace at  *)
(* the end of the body) the lexemes are the single characters.  String     *)
(* concatenation is \o and string equality is equality of sequences.       *)
(***************************************************************************)
EXTENDS Integers, Sequences, FiniteSets

(***************************************************************************)
(* Bounds of the model.                                                    *)
(***************************************************************************)
MaxFiles  == 2      \* length of the changed-file list
MaxChunks == 3      \* number of chunks a starting body is made of
MaxSteps  == 2      \* number of steps of a behaviour

(***************************************************************************)
(* Fixed strings of the program.                                           *)
(***************************************************************************)
NL == "\n"
targetPrefix == <<"database", "/", "rentec", "/", "schema", "/", "migrations", "/">>
START == "<!-- DATABASE_CHANGES_START -->"
END == "<!-- DATABASE_CHANGES_END -->"
labelName == "Database changes"
heading == <<"### ", labelName>>
Intro == "This PR adds the following migration files:"
LoneLead == "Do (point down) Undo (point right) "
owner == "OWNER"
repo == "REPO"
NotFound == 404
ServerError == 500
Success == 200

Digit == {"0", "1", "2", "3", "4", "5", "6", "7", "8", "9"}
LineTerminator == {"\n", "\r"}
WhiteSpace == {" ", "\t", "\n", "\r"}

(***************************************************************************)
(* String primitives of JavaScript, on sequences of lexemes.               *)
(***************************************************************************)
StartsWith(s, p) == Len(p) <= Len(s) /\ SubSeq(s, 1, Len(p)) = p

\* s.split(sep): the pieces of s between the occurrences of the lexeme sep.
RECURSIVE Split(_, _)
Split(s, sep) ==
    IF \A i \in 1..Len(s) : s[i] # sep
    THEN <<s>>
    ELSE LET i == CHOOSE k \in 1..Len(s) :
                      s[k] = sep /\ \A j \in 1..(k - 1) : s[j] # sep
         IN <<SubSeq(s, 1, i - 1)>> \o Split(SubSeq(s, i + 1, Len(s)), sep)

\* parts.join(sep), sep a string.
RECURSIVE Join(_, _)
Join(parts, sep) ==
    IF parts = <<>> THEN <<>>
    ELSE IF Len(parts) = 1 THEN parts[1]
    ELSE parts[1] \o sep \o Join(Tail(parts), sep)

\* s.trimEnd()
RECURSIVE TrimEnd(_)
TrimEnd(s) ==
    IF s # <<>> /\ s[Len(s)] \in WhiteSpace
    THEN TrimEnd(SubSeq(s, 1, Len(s) - 1))
    ELSE s

\* String(n) for n >= 0, in decimal.
DigitOf(d) == CASE d = 0 -> "0" [] d = 1 -> "1" [] d = 2 -> "2" [] d = 3 -> "3"
                [] d = 4 -> "4" [] d = 5 -> "5" [] d = 6 -> "6" [] d = 7 -> "7"
                [] d = 8 -> "8" [] d = 9 -> "9"

RECURSIVE NumberToString(_)
NumberToString(n) ==
    IF n < 10 THEN <<DigitOf(n)>>
    ELSE NumberToString(n \div 10) \o <<DigitOf(n % 10)>>

(***************************************************************************)
(* Change Detector.                                                        *)
(***************************************************************************)
\* the filter without the status test
IsMigrationOfAnyStatus(f) == StartsWith(f.filename, targetPrefix)

IsAddedMigration(f) == f.status = "added" /\ StartsWith(f.filename, targetPrefix)

RECURSIVE addedMigrationsOf(_)
addedMigrationsOf(files) ==
    IF files = <<>> THEN <<>>
    ELSE (IF IsAddedMigration(Head(files)) THEN <<Head(files)>> ELSE <<>>)
         \o addedMigrationsOf(Tail(files))

(***************************************************************************)
(* Links.                                                                  *)
(***************************************************************************)
\* parts.pop(): the last piece
LastOf(parts) == parts[Len(parts)]

Basename(filename) == LastOf(Split(filename, "/"))

fileUrl(f, sha) ==
    <<"https://github.com/", owner, "/", repo, "/blob/", sha, "/">> \o f.filename

fileLink(f, sha) == <<"[">> \o Basename(f.filename) \o <<"](">> \o fileUrl(f, sha) \o <<")">>

RECURSIVE BulletLines(_, _)
BulletLines(files, sha) ==
    IF files = <<>> THEN <<>>
    ELSE <<(<<"- ">> \o fileLink(Head(files), sha))>> \o BulletLines(Tail(files), sha)


(***************************************************************************)
(* Summary Renderer, variant A: the flat list.                             *)
(***************************************************************************)
linesOf(added, sha) == Join(BulletLines(added, sha), <<NL>>)

sectionA(added, sha) ==
    LET lines == linesOf(added, sha)
    IN IF Len(lines) > 0
       THEN <<START, NL>> \o heading \o <<NL, NL, Intro, NL, NL>> \o lines \o <<NL, NL, END>>
       ELSE <<>>

(***************************************************************************)
(* Summary Renderer, variant B: do/undo aware.                             *)
(***************************************************************************)
AnyChar(c) == c \notin LineTerminator

\* /^\d+.(?:un)?do.[\s\S]*?.sql$/.test(name); the dots are unescaped in the
\* source and match any character but a line terminator.
RegexTest(name) ==
    LET L == Len(name)
    IN \E i \in 1..L :
          /\ \A k \in 1..i : name[k] \in Digit
          /\ i + 1 <= L /\ AnyChar(name[i + 1])
          /\ \E q \in {i + 2, i + 4} :
                /\ q = i + 4 => (i + 3 <= L /\ name[i + 2] = "u" /\ name[i + 3] = "n")
                /\ q + 1 <= L /\ name[q] = "d" /\ name[q + 1] = "o"
                /\ q + 2 <= L - 4 /\ AnyChar(name[q + 2])
                /\ AnyChar(name[L - 3])
                /\ SubSeq(name, L - 2, L) = <<"s", "q", "l">>

EmptyObject == [k \in {} |-> k]
Undefined == <<"u", "n", "d", "e", "f", "i", "n", "e", "d">>
DoKey == <<"d", "o">>
UndoKey == <<"u", "n", "d", "o">>

\* pairs[timestamp] ??= {}; pairs[timestamp][doOrUndo] = f
PutPair(pairs, timestamp, doOrUndo, f) ==
    LET old == IF timestamp \in DOMAIN pairs THEN pairs[timestamp] ELSE EmptyObject
        new == [r \in DOMAIN old \cup {doOrUndo} |-> IF r = doOrUndo THEN f ELSE old[r]]
    IN [t \in DOMAIN pairs \cup {timestamp} |-> IF t = timestamp THEN new ELSE pairs[t]]

\* const [timestamp, doOrUndo] = name.split("."); pairs[timestamp][doOrUndo] = f
PutParts(pairs, parts, f) ==
    PutPair(pairs, parts[1], IF Len(parts) >= 2 THEN parts[2] ELSE Undefined, f)

\* one turn of the loop of formatMigrations, name the basename of f
PutNamed(pairs, name, f) ==
    IF RegexTest(name) THEN PutParts(pairs, Split(name, "."), f) ELSE pairs

\* the loop of formatMigrations over the files, in file-list order
RECURSIVE BuildPairs(_, _)
BuildPairs(files, pairs) ==
    IF files = <<>> THEN pairs
    ELSE BuildPairs(Tail(files),
                    PutNamed(pairs, Basename(Head(files).filename), Head(files)))

\* the number of patch lines that start with "+" and not with "+++"
doLineCountOf(patch) ==
    LET lines == Split(patch, NL)
    IN Cardinality({i \in 1..Len(lines) :
                       StartsWith(lines[i], <<"+">>) /\ ~StartsWith(lines[i], <<"+", "+", "+">>)})

\* formatLoneMigration({do: doFile, undo: undoFile}).  A missing key is the
\* value undefined; reading doFile.patch or undoFile.filename then throws a
\* TypeError: ok = FALSE.
formatLoneMigration(group, sha) ==
    IF DoKey \notin DOMAIN group \/ UndoKey \notin DOMAIN group
    THEN [ok |-> FALSE, text |-> <<>>]
    ELSE LET doFile == group[DoKey]
             undoFile == group[UndoKey]
             doUrl == fileUrl(doFile, sha) \o <<"#L1-L">>
                        \o NumberToString(doLineCountOf(doFile.patch) + 1)
         IN [ok |-> TRUE, text |-> <<LoneLead>> \o fileLink(undoFile, sha) \o <<NL>> \o doUrl]

\* formatMultipleMigrations(): it reads addedMigrations, not the pairs.
formatMultipleMigrations(added, sha) ==
    LET lines == linesOf(added, sha)
    IN [ok |-> TRUE,
        text |-> IF Len(lines) > 0 THEN <<Intro, NL, NL>> \o lines ELSE <<>>]

\* the choice of formatMigrations between its two formats
formatPairs(pairs, added, sha) ==
    IF Cardinality(DOMAIN pairs) = 1
    THEN formatLoneMigration(pairs[CHOOSE t \in DOMAIN pairs : TRUE], sha)
    ELSE formatMultipleMigrations(added, sha)

formatMigrations(added, sha) == formatPairs(BuildPairs(added, EmptyObject), added, sha)

sectionB(formattedMigrations) ==
    <<START, NL>> \o heading \o <<NL, NL>> \o formattedMigrations \o <<NL, NL, END>>

(***************************************************************************)
(* Body Reconciler.                                                        *)
(***************************************************************************)
\* the replacement without the "g" flag: the first match only
StripFirstSection(s) ==
    IF \A i \in 1..Len(s) : s[i] # START
    THEN s
    ELSE LET i == CHOOSE k \in 1..Len(s) :
                      s[k] = START /\ \A j \in 1..(k - 1) : s[j] # START
         IN IF \A j \in (i + 1)..Len(s) : s[j] # END
            THEN s
            ELSE LET e == CHOOSE k \in (i + 1)..Len(s) :
                              s[k] = END /\ \A j \in (i + 1)..(k - 1) : s[j] # END
                 IN SubSeq(s, 1, i - 1) \o SubSeq(s, e + 1, Len(s))

\* oldBody.replace(new RegExp(START + "[\\s\\S]*?" + END, "g"), ""): every
\* non-overlapping leftmost match, each from a START to the first END after it.
RECURSIVE StripSections(_)
StripSections(s) ==
    IF \A i \in 1..Len(s) : s[i] # START
    THEN s
    ELSE LET i == CHOOSE k \in 1..Len(s) :
                      s[k] = START /\ \A j \in 1..(k - 1) : s[j] # START
         IN IF \A j \in (i + 1)..Len(s) : s[j] # END
            THEN s
            ELSE LET e == CHOOSE k \in (i + 1)..Len(s) :
                              s[k] = END /\ \A j \in (i + 1)..(k - 1) : s[j] # END
                 IN SubSeq(s, 1, i - 1) \o StripSections(SubSeq(s, e + 1, Len(s)))

\* the new body without the trimEnd()
newBodyUntrimmed(oldBody, section) ==
    Join(SelectSeq(<<StripSections(oldBody), section>>, LAMBDA x : x # <<>>), <<NL, NL>>)

\* [bodySansDbChanges, section].filter(Boolean).join("\n\n")
newBodyOf(oldBody, section) ==
    LET bodySansDbChanges == TrimEnd(StripSections(oldBody))
    IN Join(SelectSeq(<<bodySansDbChanges, section>>, LAMBDA x : x # <<>>), <<NL, NL>>)

(***************************************************************************)
(* The remote API.  A run is a record st: the remote state as the calls    *)
(* made so far have left it, the calls issued, in order, and whether an    *)
(* error has propagated out of run().  fault names the one call that the   *)
(* remote answers with a failure other than not-found ("none": no such     *)
(* failure); one is enough, because the first such failure ends the run.   *)
(***************************************************************************)
Faults == {"none", "listFiles", "pulls.update", "getLabel", "createLabel",
           "addLabels", "removeLabel"}

Call(st, api, status) == [st EXCEPT !.calls = Append(@, [api |-> api, status |-> status])]

\* an error propagates out of run()
Throw(st, error, status) == [st EXCEPT !.raised = TRUE, !.error = error, !.status = status]

\* the status the remote answers a call with that has no not-found case
StatusOf(api, fault) == IF fault = api THEN ServerError ELSE Success

listFiles(st, fault) ==
    LET status == StatusOf("listFiles", fault)
        s1 == Call(st, "listFiles", status)
    IN IF status = Success THEN s1 ELSE Throw(s1, "HttpError", status)

pullsUpdate(st, newBody, fault) ==
    LET status == StatusOf("pulls.update", fault)
        s1 == Call(st, "pulls.update", status)
    IN IF status = Success THEN [s1 EXCEPT !.body = newBody]
       ELSE Throw(s1, "HttpError", status)

\* the status the remote answers issues.getLabel with
getLabelStatus(st, fault) ==
    IF fault = "getLabel" THEN ServerError
    ELSE IF st.def THEN Success ELSE NotFound

createLabel(st, fault) ==
    LET status == StatusOf("createLabel", fault)
        s1 == Call(st, "createLabel", status)
    IN IF status = Success THEN [s1 EXCEPT !.def = TRUE]
       ELSE Throw(s1, "HttpError", status)

addLabels(st, fault) ==
    LET status == StatusOf("addLabels", fault)
        s1 == Call(st, "addLabels", status)
    IN IF status = Success THEN [s1 EXCEPT !.labels = @ \cup {labelName}]
       ELSE Throw(s1, "HttpError", status)

\* the status the remote answers issues.removeLabel with
removeLabelStatus(st, fault) ==
    IF fault = "removeLabel" THEN ServerError
    ELSE IF labelName \in st.labels THEN Success ELSE NotFound

(***************************************************************************)
(* Label Reconciler.                                                       *)
(***************************************************************************)
\* the lookup with every failure swallowed and no label created
ensureLabelExistsSwallow(st, fault) == Call(st, "getLabel", getLabelStatus(st, fault))

\* try { getLabel } catch (e) { if (e.status === 404) createLabel else throw e }
ensureLabelExists(st, fault) ==
    LET status == getLabelStatus(st, fault)
        s1 == Call(st, "getLabel", status)
    IN IF status = Success THEN s1
       ELSE IF status = NotFound THEN createLabel(s1, fault)
       ELSE Throw(s1, "HttpError", status)

\* the removal without the catch: every failure propagates
removeLabelUncaught(st, fault) ==
    LET status == removeLabelStatus(st, fault)
        s1 == Call(st, "removeLabel", status)
    IN IF status = Success THEN [s1 EXCEPT !.labels = @ \ {labelName}]
       ELSE Throw(s1, "HttpError", status)

\* try { removeLabel } catch (e) { if (e.status !== 404) throw e }
removeLabelCaught(st, fault) ==
    LET status == removeLabelStatus(st, fault)
        s1 == Call(st, "removeLabel", status)
    IN IF status = Success THEN [s1 EXCEPT !.labels = @ \ {labelName}]
       ELSE IF status # NotFound THEN Throw(s1, "HttpError", status)
       ELSE s1

reconcileLabel(st, prLabels, added, fault) ==
    LET hasLabel == labelName \in prLabels
    IN IF Len(added) > 0
       THEN IF ~hasLabel
            THEN LET s1 == ensureLabelExists(st, fault)
                 IN IF s1.raised THEN s1 ELSE addLabels(s1, fault)
            ELSE st
       ELSE IF hasLabel THEN removeLabelCaught(st, fault)
       ELSE st

(***************************************************************************)
(* run({github, context}).  pr is context.payload.pull_request, the        *)
(* snapshot of the pull request carried by the triggering event; fs is the *)
(* changed-file list the remote returns now; remote is the remote state    *)
(* now.  The result records what the run did.                              *)
(***************************************************************************)
\* the section of variant B, unless formatMigrations has thrown
sectionOfFormatted(formattedMigrations) ==
    [ok |-> formattedMigrations.ok,
     text |-> IF formattedMigrations.ok THEN sectionB(formattedMigrations.text) ELSE <<>>]

renderSection(v, added, sha) ==
    IF v = "A"
    THEN [ok |-> TRUE, text |-> sectionA(added, sha)]
    ELSE sectionOfFormatted(formatMigrations(added, sha))

reconcileBody(st, oldBody, newBody, fault) ==
    IF oldBody # newBody THEN pullsUpdate(st, newBody, fault) ELSE st

\* the label reconciled whatever happened to the body update
afterBodyAlways(st, prLabels, added, fault) == reconcileLabel(st, prLabels, added, fault)

afterBody(st, prLabels, added, fault) ==
    IF st.raised THEN st ELSE reconcileLabel(st, prLabels, added, fault)

\* what run() did: the record kept of one execution
Outcome(pr, fs, remote, s1, section, newBody, s3) ==
    [pr |-> pr, files |-> fs, start |-> remote,
     listed |-> ~s1.raised,
     rendered |-> ~s1.raised /\ section.ok,
     section |-> IF ~s1.raised /\ section.ok THEN section.text ELSE <<>>,
     newBody |-> IF ~s1.raised /\ section.ok THEN newBody ELSE <<>>,
     calls |-> s3.calls, raised |-> s3.raised, error |-> s3.error,
     status |-> s3.status,
     end |-> [body |-> s3.body, labels |-> s3.labels, def |-> s3.def]]

run(v, pr, fs, remote, fault) ==
    LET st0 == [body |-> remote.body, labels |-> remote.labels, def |-> remote.def,
                calls |-> <<>>, raised |-> FALSE, error |-> "none", status |-> 0]
        s1 == listFiles(st0, fault)
        addedMigrations == addedMigrationsOf(fs)
        section == renderSection(v, addedMigrations, pr.sha)
        oldBody == pr.body
        newBody == newBodyOf(oldBody, section.text)
        s2 == IF s1.raised THEN s1
              ELSE IF ~section.ok THEN Throw(s1, "TypeError", 0)
              ELSE reconcileBody(s1, oldBody, newBody, fault)
        s3 == afterBody(s2, pr.labels, addedMigrations, fault)
    IN Outcome(pr, fs, remote, s1, section, newBody, s3)

(***************************************************************************)
(* Inputs.                                                                 *)
(***************************************************************************)
Name(chars) == targetPrefix \o chars

Do1 == [filename |-> Name(<<"1", ".", "d", "o", ".", "x", ".", "s", "q", "l">>),
        status |-> "added",
        patch |-> <<"+", "+", "+", " ", "b", NL, "+", "c", NL, "+", "d", NL, " ", "e">>]
Do1b == [filename |-> Name(<<"1", ".", "d", "o", ".", "y", ".", "s", "q", "l">>),
         status |-> "added", patch |-> <<"+", "c">>]
Undo1 == [filename |-> Name(<<"1", ".", "u", "n", "d", "o", ".", "x", ".", "s", "q", "l">>),
          status |-> "added", patch |-> <<"+", "c">>]
Do2 == [filename |-> Name(<<"2", ".", "d", "o", ".", "x", ".", "s", "q", "l">>),
        status |-> "added", patch |-> <<>>]
Readme == [filename |-> Name(<<"r", ".", "m", "d">>), status |-> "added", patch |-> <<>>]
Mod1 == [filename |-> Name(<<"1", ".", "d", "o", ".", "x", ".", "s", "q", "l">>),
         status |-> "modified", patch |-> <<"+", "c">>]
Other1 == [filename |-> <<"other", "/", "path", "/",
                          "1", ".", "d", "o", ".", "s", "q", "l">>,
           status |-> "added", patch |-> <<"+", "c">>]

FileUniverse == {Do1, Do1b, Undo1, Do2, Readme, Mod1, Other1}

RECURSIVE ListsUpTo(_, _)
ListsUpTo(S, n) ==
    IF n = 0 THEN {<<>>}
    ELSE LET shorter == ListsUpTo(S, n - 1)
         IN shorter \cup {Append(l, x) : l \in shorter, x \in S}

FileLists == ListsUpTo(FileUniverse, MaxFiles)

CoreFileLists == {<<>>, <<Do1, Undo1>>, <<Do1>>, <<Mod1, Other1>>, <<Do1, Do2>>}

Chunks == {<<"a">>, <<NL>>, <<START>>, <<END>>, <<START, "old", END>>}

RECURSIVE BodiesUpTo(_)
BodiesUpTo(n) ==
    IF n = 0 THEN {<<>>}
    ELSE LET shorter == BodiesUpTo(n - 1)
         IN shorter \cup {b \o c : b \in shorter, c \in Chunks}

Bodies == BodiesUpTo(MaxChunks)

CoreBodies == {<<>>, <<"a">>, <<"a", NL, NL, START, "old", END>>}

OtherLabel == "bug"
Shas == {"sha1", "sha2"}

(***************************************************************************)
(* State.                                                                  *)
(***************************************************************************)
VARIABLES
    variant,    \* which of the two scripts the workflow runs
    files,      \* remote: the changed-file list of the pull request
    headSha,    \* remote: the head commit of the pull request
    body,       \* remote: the body of the pull request
    labels,     \* remote: the names of the labels on the pull request
    labelDef,   \* remote: the repository has a label named labelName
    payload,    \* the pull_request object of the last triggering event
    log,        \* what the last two runs did, oldest first
    steps       \* number of steps taken

vars == <<variant, files, headSha, body, labels, labelDef, payload, log, steps>>

Remote == [body |-> body, labels |-> labels, def |-> labelDef]

Snapshot == [body |-> body, labels |-> labels, sha |-> headSha]

InitCommon ==
    /\ variant \in {"A", "B"}
    /\ headSha = "sha1"
    /\ payload = Snapshot
    /\ log = <<>>
    /\ steps = 0

\* the whole system, on a few bodies and file lists
Init ==
    /\ body \in CoreBodies
    /\ files \in CoreFileLists
    /\ labels \in SUBSET {labelName, OtherLabel}
    /\ labelDef \in BOOLEAN
    /\ labelName \in labels => labelDef
    /\ InitCommon

\* every starting body, a few file lists
InitBody ==
    /\ body \in Bodies
    /\ files \in CoreFileLists
    /\ labels \in {{}, {labelName}}
    /\ labelDef = (labelName \in labels)
    /\ InitCommon

\* every file list, a few bodies
InitFormat ==
    /\ body \in CoreBodies
    /\ files \in FileLists
    /\ labels \in {{}, {labelName}}
    /\ labelDef = (labelName \in labels)
    /\ InitCommon

(***************************************************************************)
(* Steps.                                                                  *)
(***************************************************************************)
\* the remote state and the record kept after the execution r of run()
Effect(r) ==
    /\ body' = r.end.body
    /\ labels' = r.end.labels
    /\ labelDef' = r.end.def
    /\ log' = IF log = <<>> THEN <<r>> ELSE <<log[Len(log)], r>>

\* the effect of one execution of run() on the pull request pr
Run(pr, fault) ==
    /\ steps < MaxSteps
    /\ Effect(run(variant, pr, files, Remote, fault))
    /\ payload' = pr
    /\ steps' = steps + 1
    /\ UNCHANGED <<variant, files, headSha>>

\* a new event on the pull request starts the workflow: the payload is the
\* pull request as it is now
Event(fault) == Run(Snapshot, fault)

\* the event is delivered again, or the workflow run is re-run: the payload
\* is the one of the event, whatever has happened to the pull request since
Redeliver(fault) == payload # Snapshot /\ Run(payload, fault)

\* somebody edits the description of the pull request
EditBody(b) ==
    /\ steps < MaxSteps
    /\ b # body
    /\ body' = b
    /\ steps' = steps + 1
    /\ UNCHANGED <<variant, files, headSha, labels, labelDef, payload, log>>

\* somebody adds the label to the pull request, or removes it
EditLabels ==
    /\ steps < MaxSteps
    /\ \/ labelName \in labels /\ labels' = labels \ {labelName}
       \/ labelName \notin labels /\ labelDef /\ labels' = labels \cup {labelName}
    /\ steps' = steps + 1
    /\ UNCHANGED <<variant, files, headSha, body, labelDef, payload, log>>

\* a push changes the file list and the head commit
Push(fs) ==
    /\ steps < MaxSteps
    /\ fs # files
    /\ files' = fs
    /\ headSha' = CHOOSE h \in Shas : h # headSha
    /\ steps' = steps + 1
    /\ UNCHANGED <<variant, body, labels, labelDef, payload, log>>

Next ==
    \/ \E fault \in Faults : Event(fault)
    \/ \E fault \in Faults : Redeliver(fault)
    \/ \E b \in {<<>>, body \o <<NL, "e">>} : EditBody(b)
    \/ EditLabels
    \/ \E fs \in {<<>>, <<Do1, Undo1>>} : Push(fs)

NextRecon == Event("none") \/ Redeliver("none")

Spec == Init /\ [][Next]_vars

SpecBody == InitBody /\ [][NextRecon]_vars

SpecFormat == InitFormat /\ [][NextRecon]_vars

(***************************************************************************)
(* Vocabulary of the properties.                                           *)
(***************************************************************************)
Ran == log # <<>>

Last == log[Len(log)]

\* the changed-file list holds a file that is added under the migration prefix
Detected(fs) ==
    \E i \in 1..Len(fs) :
        fs[i].status = "added" /\ StartsWith(fs[i].filename, targetPrefix)

Issued(r, api) == \E i \in 1..Len(r.calls) : r.calls[i].api = api

Answered(r, api, status) ==
    \E i \in 1..Len(r.calls) : r.calls[i] = [api |-> api, status |-> status]

Failed(r, api) ==
    \E i \in 1..Len(r.calls) :
        r.calls[i].api = api /\ r.calls[i].status \notin {Success, NotFound}

IssuedBefore(r, a, b) ==
    \E i, j \in 1..Len(r.calls) : i < j /\ r.calls[i].api = a /\ r.calls[j].api = b

WriteApis == {"pulls.update", "addLabels", "removeLabel", "createLabel"}

LabelApis == {"getLabel", "createLabel", "addLabels", "removeLabel"}

NoCallOf(r, apis) == \A i \in 1..Len(r.calls) : r.calls[i].api \notin apis

Count(s, x) == Cardinality({i \in 1..Len(s) : s[i] = x})

Markers == {START, END}

\* the number of markers among the lexemes lo..hi of s
MarkersIn(s, lo, hi) == Cardinality({j \in lo..hi : s[j] \in Markers})

\* the markers of s occur only as the two ends of complete sections: they
\* are, in order, a start marker, an end marker, a start marker, ...
WellFormed(s) ==
    /\ MarkersIn(s, 1, Len(s)) % 2 = 0
    /\ \A i \in 1..Len(s) :
          s[i] \in Markers => (s[i] = START <=> MarkersIn(s, 1, i) % 2 = 1)

\* lexeme i of a well-formed s lies outside the sections
IsOutside(s, i) == s[i] \notin Markers /\ MarkersIn(s, 1, i) % 2 = 0

\* the lexemes lo..hi of a well-formed s that lie outside the sections
RECURSIVE TextOutsideIn(_, _, _)
TextOutsideIn(s, lo, hi) ==
    IF lo > hi THEN <<>>
    ELSE IF lo = hi THEN (IF IsOutside(s, lo) THEN <<s[lo]>> ELSE <<>>)
    ELSE LET mid == (lo + hi) \div 2
         IN TextOutsideIn(s, lo, mid) \o TextOutsideIn(s, mid + 1, hi)

TextOutside(s) == TextOutsideIn(s, 1, Len(s))

\* the lexemes lo..hi of a well-formed s, every section replaced by the
\* lexeme START
RECURSIVE CollapsedIn(_, _, _)
CollapsedIn(s, lo, hi) ==
    IF lo > hi THEN <<>>
    ELSE IF lo = hi
    THEN (IF IsOutside(s, lo) \/ s[lo] = START THEN <<s[lo]>> ELSE <<>>)
    ELSE LET mid == (lo + hi) \div 2
         IN CollapsedIn(s, lo, mid) \o CollapsedIn(s, mid + 1, hi)

\* the pieces of unrelated text of s, in order
Pieces(s) == Split(CollapsedIn(s, 1, Len(s)), START)

\* every piece occurs in s, unchanged, one after the other
RECURSIVE OccurInOrder(_, _)
OccurInOrder(pieces, s) ==
    IF pieces = <<>> THEN TRUE
    ELSE LET p == Head(pieces)
         IN \E i \in 0..(Len(s) - Len(p)) :
               /\ SubSeq(s, i + 1, i + Len(p)) = p
               /\ OccurInOrder(Tail(pieces), SubSeq(s, i + Len(p) + 1, Len(s)))

EndsWith(s, p) == Len(p) <= Len(s) /\ SubSeq(s, Len(s) - Len(p) + 1, Len(s)) = p

Contains(s, p) == \E i \in 0..(Len(s) - Len(p)) : SubSeq(s, i + 1, i + Len(p)) = p

\* the section of a body that holds exactly one
SectionOf(s) ==
    LET i == CHOOSE k \in 1..Len(s) : s[k] = START
        e == CHOOSE k \in 1..Len(s) : s[k] = END
    IN SubSeq(s, i, e)

\* the timestamp keys and the roles of the detected files whose basename
\* matches the pattern
Matching(fs) ==
    {i \in 1..Len(fs) : IsAddedMigration(fs[i]) /\ RegexTest(Basename(fs[i].filename))}

TimestampKeys(fs) == {Split(Basename(fs[i].filename), ".")[1] : i \in Matching(fs)}

Roles(fs) == {Split(Basename(fs[i].filename), ".")[2] : i \in Matching(fs)}

\* exactly one timestamp, and only one half of its pair
LoneHalf(fs) ==
    /\ Cardinality(TimestampKeys(fs)) = 1
    /\ (DoKey \in Roles(fs)) # (UndoKey \in Roles(fs))

(***************************************************************************)
(* C1 - Idempotence of run(): when run() is executed twice in succession   *)
(* with the same file list and the second run sees the body and the labels *)
(* the first one left, the body and the labels after the second run are    *)
(* those after the first and the second run issues no write call.  Stated  *)
(* for every starting body, unmatched start markers included.              *)
(***************************************************************************)
InSuccession(first, second) ==
    /\ ~first.raised /\ ~second.raised
    /\ second.files = first.files
    /\ second.pr.body = first.end.body
    /\ second.pr.labels = first.end.labels
    /\ second.start = first.end

\* C1 as claimed: a second run in succession changes nothing and writes
\* nothing, whatever the starting body
C1_Idempotent ==
    Len(log) = 2 /\ InSuccession(log[1], log[2])
        => /\ log[2].end.body = log[1].end.body
           /\ log[2].end.labels = log[1].end.labels
           /\ NoCallOf(log[2], WriteApis)

\* every start marker of s has an end marker somewhere after it
EveryStartClosed(s) ==
    \A i \in 1..Len(s) : s[i] = START => \E j \in (i + 1)..Len(s) : s[j] = END

\* C1 as amended: a second run in succession changes nothing and writes
\* nothing, for the starting bodies in which every start marker is followed
\* by an end marker
C1_IdempotentClosed ==
    Len(log) = 2 /\ InSuccession(log[1], log[2]) /\ EveryStartClosed(log[1].pr.body)
        => /\ log[2].end.body = log[1].end.body
           /\ log[2].end.labels = log[1].end.labels
           /\ NoCallOf(log[2], WriteApis)

\* C1 witness: the first run replaced a section and added the label, the second run saw
\* what it left
C1_Witness ==
    /\ Len(log) = 2 /\ InSuccession(log[1], log[2])
    /\ EveryStartClosed(log[1].pr.body)
    /\ Count(log[1].pr.body, START) >= 1
    /\ Answered(log[1], "pulls.update", Success)
    /\ Answered(log[1], "addLabels", Success)

(***************************************************************************)
(* C2 - The empty case removes the section: when no added migration file   *)
(* is detected, the body run() computes holds no start marker, no end      *)
(* marker and no heading, and ends without whitespace.  Stated for the     *)
(* starting bodies whose markers are the ends of complete sections.        *)
(***************************************************************************)
C2_EmptyRemovesSection ==
    Ran /\ Last.rendered /\ ~Detected(Last.files) /\ WellFormed(Last.pr.body)
        => /\ Count(Last.newBody, START) = 0
           /\ Count(Last.newBody, END) = 0
           /\ ~Contains(Last.newBody, heading)
           /\ TrimEnd(Last.newBody) = Last.newBody

(***************************************************************************)
(* C3 - Section replacement, not accumulation.  For a starting body made   *)
(* of unrelated text and complete sections, the body run() computes holds  *)
(* at most one section, exactly one with the newly rendered content when   *)
(* migrations are detected.                                                *)
(***************************************************************************)
OneSection(r) ==
    /\ WellFormed(r.newBody)
    /\ Count(r.newBody, START) <= 1
    /\ Detected(r.files)
         => Count(r.newBody, START) = 1 /\ SectionOf(r.newBody) = r.section
    /\ Count(r.newBody, START) = 1
         => r.section # <<>> /\ EndsWith(r.newBody, r.section)

\* C3 as claimed: at most one section, and every piece of unrelated text
\* still occurs, unchanged, in the original order
C3_TextUnchanged ==
    Ran /\ Last.rendered /\ WellFormed(Last.pr.body)
        => OneSection(Last) /\ OccurInOrder(Pieces(Last.pr.body), Last.newBody)

\* C3 as amended: at most one section, and the unrelated text, with the
\* whitespace at its end removed, is what stands before the section, a blank
\* line between them
C3_SectionReplaced ==
    Ran /\ Last.rendered /\ WellFormed(Last.pr.body)
        => /\ OneSection(Last)
           /\ LET old == Last.pr.body
                  text == TrimEnd(TextOutside(old))
              IN TextOutside(Last.newBody)
                     = IF Count(Last.newBody, START) = 1 /\ text # <<>>
                       THEN text \o <<NL, NL>>
                       ELSE text

\* C3 witness: a body with text before and after a section was reconciled with newly
\* detected migrations
C3_Witness ==
    /\ Ran /\ Last.rendered /\ WellFormed(Last.pr.body)
    /\ Count(Last.pr.body, START) = 1
    /\ Head(Last.pr.body) = "a" /\ Last.pr.body[Len(Last.pr.body)] = "a"
    /\ Detected(Last.files)
    /\ SectionOf(Last.pr.body) # Last.section
    /\ Issued(Last, "pulls.update")

(***************************************************************************)
(* C4 - The label is present if and only if migrations are detected: after *)
(* a run that completes without raising, whose payload tells the truth     *)
(* about the label being on the pull request at its start, the pull        *)
(* request carries the label exactly when the file list holds a file that  *)
(* is added under the migration prefix; in the two cases that are          *)
(* satisfied already the run issues no label call.                         *)
(***************************************************************************)
StartLabelSeen(r) == (labelName \in r.pr.labels) <=> (labelName \in r.start.labels)

C5_DefinitionBeforeAdd ==
    Ran =>
      /\ Detected(Last.files) /\ labelName \notin Last.pr.labels /\ ~Last.raised
           => IssuedBefore(Last, "getLabel", "addLabels")
      /\ Issued(Last, "createLabel")
           => /\ Answered(Last, "getLabel", NotFound)
              /\ IssuedBefore(Last, "getLabel", "createLabel")
              /\ ~IssuedBefore(Last, "addLabels", "createLabel")
      /\ Issued(Last, "addLabels")
           => /\ IssuedBefore(Last, "getLabel", "addLabels")
              /\ Last.start.def \/ Answered(Last, "createLabel", Success)
              /\ Last.end.def
      /\ Failed(Last, "getLabel")
           => /\ Last.raised /\ Last.status = ServerError
              /\ ~Issued(Last, "createLabel") /\ ~Issued(Last, "addLabels")
      /\ Failed(Last, "createLabel") => Last.raised /\ ~Issued(Last, "addLabels")

\* C5 witness: the repository had no label: it was looked up, created and added
C5_Witness ==
    /\ Ran /\ ~Last.start.def
    /\ Answered(Last, "getLabel", NotFound)
    /\ Answered(Last, "createLabel", Success)
    /\ Answered(Last, "addLabels", Success)
    /\ IssuedBefore(Last, "createLabel", "addLabels")
    /\ labelName \in Last.end.labels

(***************************************************************************)
(* C6 - Label removal treats not-found as success: with no migrations      *)
(* detected and the label believed present, a not-found answer to          *)
(* removeLabel lets run() complete without raising and the label is absent *)
(* from the pull request; any other failure of removeLabel propagates.     *)
(***************************************************************************)
C6_RemoveNotFound ==
    Ran =>
      /\ Issued(Last, "removeLabel")
           => ~Detected(Last.files) /\ labelName \in Last.pr.labels
      /\ Answered(Last, "removeLabel", NotFound)
           => ~Last.raised /\ labelName \notin Last.end.labels
      /\ Failed(Last, "removeLabel")
           => Last.raised /\ Last.error = "HttpError" /\ Last.status = ServerError

\* C6 witness: the label was taken off the pull request after the event: the removal
\* was answered not-found and the run completed
C6_Witness ==
    /\ Ran /\ ~Last.raised
    /\ labelName \in Last.pr.labels
    /\ Answered(Last, "removeLabel", NotFound)

(***************************************************************************)
(* C7 - A missing half of a lone pair is handled gracefully (variant B):   *)
(* when the detected files group into exactly one timestamp that has a do  *)
(* file and no undo file, or an undo file and no do file, rendering does   *)
(* not fail and run() goes on to reconcile the body and the label.         *)
(***************************************************************************)
C7_MissingHalfHandled ==
    Ran /\ variant = "B" /\ Last.listed /\ LoneHalf(Last.files)
        => /\ Last.rendered
           /\ Last.error # "TypeError"
           /\ Last.newBody # <<>>

(***************************************************************************)
(* C8 - Each run re-derives everything from the current remote state: the  *)
(* body a run writes is the Body Reconciler's result on the remote body as *)
(* it is when the run executes, and its label decision uses the remote     *)
(* label set as it is then.                                                *)
(***************************************************************************)
C8_CurrentRemoteState ==
    Ran =>
      /\ Answered(Last, "pulls.update", Success)
           => Last.end.body = newBodyOf(Last.start.body, Last.section)
      /\ Issued(Last, "addLabels") => labelName \notin Last.start.labels
      /\ Issued(Last, "removeLabel") => labelName \in Last.start.labels

(***************************************************************************)
(* C9 - The body update and the label update within one run().             *)
(***************************************************************************)
LabelCallFailed(r) ==
    Failed(r, "getLabel") \/ Failed(r, "createLabel") \/ Failed(r, "addLabels")
        \/ Failed(r, "removeLabel")

\* C9 as claimed: either may succeed while the other fails; a failed body
\* update does not keep the label from being reconciled, and a failed label
\* call does not undo the body update
C9_Independent ==
    Ran =>
      /\ Failed(Last, "pulls.update")
            /\ (labelName \in Last.pr.labels) # Detected(Last.files)
           => ~NoCallOf(Last, LabelApis)
      /\ LabelCallFailed(Last) /\ Issued(Last, "pulls.update")
           => Last.end.body = Last.newBody

\* C9 as amended: the body update comes first; a failed label call does not
\* undo it; a failed body update propagates and no label call follows
C9_BodyThenLabel ==
    Ran =>
      /\ Failed(Last, "pulls.update")
           => /\ Last.raised /\ Last.status = ServerError
              /\ NoCallOf(Last, LabelApis)
              /\ Last.end = Last.start
      /\ LabelCallFailed(Last) /\ Issued(Last, "pulls.update")
           => /\ Last.raised
              /\ Answered(Last, "pulls.update", Success)
              /\ Last.end.body = Last.newBody
      /\ \A api \in LabelApis : ~IssuedBefore(Last, api, "pulls.update")

\* C9 witness: the body was updated and the label call that followed failed
C9_Witness ==
    /\ Ran /\ Last.raised
    /\ Answered(Last, "pulls.update", Success)
    /\ Failed(Last, "addLabels")
    /\ Last.end.body = Last.newBody
    /\ Last.end.body # Last.start.body

(***************************************************************************)
(* C10 - Format selection of variant B: the lone do/undo format is         *)
(* rendered exactly when the detected files that match the pattern group   *)
(* into exactly one timestamp key; with no key or several keys and a       *)
(* migration detected, the flat list is rendered, one entry per detected   *)
(* file in file-list order, after the introducing sentence.                *)
(***************************************************************************)
IsLoneFormat(section) == Count(section, LoneLead) = 1 /\ Count(section, Intro) = 0

FlatListOf(fs, sha) ==
    <<START, NL>> \o heading \o <<NL, NL, Intro, NL, NL>>
        \o Join(BulletLines(addedMigrationsOf(fs), sha), <<NL>>) \o <<NL, NL, END>>

\* C10: lone format <=> exactly one timestamp key; otherwise the flat list
\* of every detected file
C10_FormatSelection ==
    Ran /\ variant = "B" /\ Last.listed
        => /\ Cardinality(TimestampKeys(Last.files)) = 1
                <=> Last.rendered /\ IsLoneFormat(Last.section)
           /\ Cardinality(TimestampKeys(Last.files)) # 1 /\ Detected(Last.files)
                => Last.rendered /\ Last.section = FlatListOf(Last.files, Last.pr.sha)

=============================================================================
